---- MODULE Spec2Model ----
(***************************************************************************)
(* Model of src/vertex_utils/eip712_structs.rs: the packed expiration and  *)
(* nonce fields of the EIP-712 message structs, the Order binding adapter  *)
(* and the 32-byte identity (address + name) encoding.                     *)
(*                                                                         *)
(* A u64 is modelled exactly, as the set of the positions (0..63) of its   *)
(* one bits: TLC's integers are 32 bits wide and cannot hold 2^58.  A byte *)
(* is an integer in 0..255 and a byte array is a sequence of bytes.  A     *)
(* panic (index out of bounds, unwrap of Err) is an outcome of its own.    *)
(***************************************************************************)
EXTENDS Integers, Sequences, FiniteSets

VARIABLES pc, order, expArg, applied, packed, view,
          cancellation, cancellationProducts, linkSigner,
          binding, restored,
          address, name, encoded, decoded

vars == <<pc, order, expArg, applied, packed, view,
          cancellation, cancellationProducts, linkSigner,
          binding, restored,
          address, name, encoded, decoded>>

orderVars == <<order, expArg, applied, packed, view,
               cancellation, cancellationProducts, linkSigner,
               binding, restored>>

identityVars == <<address, name, encoded, decoded>>

\* ------------------------------------------------------------------ bounds

\* How many times one order's expiration is stamped with an order type.
MaxStamps == 2
\* How many of the bits 58..63 an input expiration has set.
MaxHighBits == 2
\* The longest name handed to to_bytes32.
MaxNameLen == 13
\* How many leading bytes of a received 12-byte name tail vary.
MaxTailVaried == 2

\* ------------------------------------------------------- u64 as a bit set

U64Bits == 64

U64Positions == 0..(U64Bits - 1)

\* An integer literal as a u64: its binary digits, from bit i upwards.
RECURSIVE FromNatAt(_, _)
FromNatAt(n, i) ==
    IF n = 0 THEN {}
    ELSE (IF n % 2 = 1 THEN {i} ELSE {}) \cup FromNatAt(n \div 2, i + 1)

FromNat(n) == FromNatAt(n, 0)

\* x << k on a u64: the bits shifted past bit 63 are lost.
Shl(x, k) == {i + k : i \in x} \cap U64Positions

\* x >> k on a u64 (logical shift).
Shr(x, k) == {i - k : i \in {j \in x : j >= k}}

BitOr(x, y) == x \cup y

BitAnd(x, y) == x \cap y

Lowest(x) == CHOOSE m \in x : \A j \in x : m <= j

\* x - 1 for x > 0: the lowest one bit is cleared and the bits below it set.
Sub1(x) ==
    LET m == Lowest(x)
    IN  (x \ {m}) \cup (0..(m - 1))

\* ------------------------------------------------------------- OrderType

OrderTypes == {"Default", "ImmediateOrCancel", "FillOrKill", "PostOnly"}

taker_only(ot) ==
    CASE ot = "ImmediateOrCancel" -> TRUE
      [] ot = "FillOrKill" -> TRUE
      [] OTHER -> FALSE

expiration_bit(ot) ==
    CASE ot = "Default" -> FromNat(0)
      [] ot = "ImmediateOrCancel" -> FromNat(1)
      [] ot = "FillOrKill" -> FromNat(2)
      [] ot = "PostOnly" -> FromNat(3)

\* Mutant: the type tag shifted to bit 61 instead of bit 62.
apply_to_expiration_shift61(ot, expiration) ==
    BitOr(expiration, Shl(expiration_bit(ot), 61))

\* Mutant: the input masked to its low 58 bits before the tag is OR-ed in.
apply_to_expiration_masked(ot, expiration) ==
    BitOr(BitAnd(expiration, Sub1(Shl(FromNat(1), 58))), Shl(expiration_bit(ot), 62))

apply_to_expiration(ot, expiration) ==
    BitOr(expiration, Shl(expiration_bit(ot), 62))

\* ----------------------------------------------------------------- Order

Order_raw_nonce(o) == o.nonce

Order_raw_expiration(o) == o.expiration

\* Mutant: a 59-bit mask.
Order_expiration_mask59(o) == BitAnd(o.expiration, Sub1(Shl(FromNat(1), 59)))

Order_expiration(o) == BitAnd(o.expiration, Sub1(Shl(FromNat(1), 58)))

Order_reduce_only(o) == BitAnd(o.expiration, Shl(FromNat(1), 61)) # FromNat(0)

Order_reserved_bits(o) == BitAnd(Shr(o.expiration, 58), Sub1(Shl(FromNat(1), 3)))

\* Mutant: the trigger flag masked out of the result (43 bits kept).
Order_recv_time_masked(o) == BitAnd(Shr(o.nonce, 20), Sub1(Shl(FromNat(1), 43)))

Order_recv_time(o) == Shr(o.nonce, 20)

\* Mutant: the flag read from bit 62.
Order_is_trigger_order_bit62(o) == Shr(o.nonce, 62) = FromNat(1)

Order_is_trigger_order(o) == Shr(o.nonce, 63) = FromNat(1)

Order_to_binding(o) ==
    [sender |-> o.sender,
     price_x18 |-> o.priceX18,
     amount |-> o.amount,
     expiration |-> o.expiration,
     nonce |-> o.nonce]

\* Mutant: price and amount swapped.
Order_from_binding_swapped(b) ==
    [sender |-> b.sender,
     priceX18 |-> b.amount,
     amount |-> b.price_x18,
     expiration |-> b.expiration,
     nonce |-> b.nonce]

Order_from_binding(b) ==
    [sender |-> b.sender,
     priceX18 |-> b.price_x18,
     amount |-> b.amount,
     expiration |-> b.expiration,
     nonce |-> b.nonce]

Cancellation_recv_time(c) == Shr(c.nonce, 20)

CancellationProducts_recv_time(c) == Shr(c.nonce, 20)

LinkSigner_recv_time(l) == Shr(l.nonce, 20)

\* ------------------------------------------------------ identity encoding

None == [kind |-> "none"]

Ok(v) == [kind |-> "ok", val |-> v]

Panic(m) == [kind |-> "panic", msg |-> m]

\* H160 wraps its 20 bytes: From<H160> for [u8; 20] and H160::from_slice.
H160_into(h) == h.h160

H160_from_slice(s) == [h160 |-> s]

\* The loop of to_bytes12; i is the code's 0-based index, out[i] = b[i] is
\* bounds-checked on both arrays (b is in range by the loop's bound).
RECURSIVE to_bytes12_loop(_, _, _)
to_bytes12_loop(b, out, i) ==
    IF i >= Len(b) THEN Ok(out)
    ELSE IF i >= Len(out) THEN Panic("index out of bounds")
    ELSE to_bytes12_loop(b, [out EXCEPT ![i + 1] = b[i + 1]], i + 1)

to_bytes12(s) == to_bytes12_loop(s, [i \in 1..12 |-> 0], 0)

concat_to_bytes32(addr, nm) ==
    [i \in 1..32 |-> IF i <= 20 THEN addr[i] ELSE nm[i - 20]]

to_bytes32(addr, s) ==
    LET nm == to_bytes12(s)
    IN  IF nm.kind = "panic" THEN nm
        ELSE Ok(concat_to_bytes32(H160_into(addr), nm.val))

IsCont(b) == b >= 128 /\ b <= 191

\* String::from_utf8's validation: well-formed UTF-8 only (no overlong
\* forms, no surrogates, nothing above U+10FFFF), from index i (1-based) on.
RECURSIVE Utf8From(_, _)
Utf8From(b, i) ==
    LET n == Len(b)
        c(k) == IF i + k <= n THEN b[i + k] ELSE -1
    IN  IF i > n THEN TRUE
        ELSE IF b[i] < 128 THEN Utf8From(b, i + 1)
        ELSE IF b[i] >= 194 /\ b[i] <= 223
            THEN IsCont(c(1)) /\ Utf8From(b, i + 2)
        ELSE IF b[i] = 224
            THEN c(1) >= 160 /\ c(1) <= 191 /\ IsCont(c(2)) /\ Utf8From(b, i + 3)
        ELSE IF b[i] = 237
            THEN c(1) >= 128 /\ c(1) <= 159 /\ IsCont(c(2)) /\ Utf8From(b, i + 3)
        ELSE IF b[i] >= 225 /\ b[i] <= 239
            THEN IsCont(c(1)) /\ IsCont(c(2)) /\ Utf8From(b, i + 3)
        ELSE IF b[i] = 240
            THEN c(1) >= 144 /\ c(1) <= 191 /\ IsCont(c(2)) /\ IsCont(c(3))
                 /\ Utf8From(b, i + 4)
        ELSE IF b[i] = 244
            THEN c(1) >= 128 /\ c(1) <= 143 /\ IsCont(c(2)) /\ IsCont(c(3))
                 /\ Utf8From(b, i + 4)
        ELSE IF b[i] >= 241 /\ b[i] <= 243
            THEN IsCont(c(1)) /\ IsCont(c(2)) /\ IsCont(c(3)) /\ Utf8From(b, i + 4)
        ELSE FALSE

IsValidUtf8(b) == Utf8From(b, 1)

\* A String is its UTF-8 bytes: from_utf8 keeps all of b, unwrap panics on Err.
from_bytes12(b) ==
    IF IsValidUtf8(b) THEN Ok(b)
    ELSE Panic("unwrap on an Err value")

from_bytes32(b) ==
    LET addr == H160_from_slice(SubSeq(b, 1, 20))
        nm == from_bytes12(SubSeq(b, 21, 32))
    IN  IF nm.kind = "panic" THEN nm
        ELSE Ok([address |-> addr, name |-> nm.val])

\* ---------------------------------------------------------------- inputs

Bytes(n, b) == [i \in 1..n |-> b]

\* The first n bytes of the text base, repeated as often as needed.
Cycle(base, n) == [i \in 1..n |-> base[((i - 1) % Len(base)) + 1]]

\* "exactly12chr", "toolong-name!", "acct1" and "e-acute" (two bytes).
NameBases ==
    {<<101, 120, 97, 99, 116, 108, 121, 49, 50, 99, 104, 114>>,
     <<116, 111, 111, 108, 111, 110, 103, 45, 110, 97, 109, 101, 33>>,
     <<97, 99, 99, 116, 49>>,
     <<195, 169>>}

\* A &str is valid UTF-8 by construction.
NameSamples ==
    {s \in {Cycle(b, n) : b \in NameBases, n \in 0..MaxNameLen} : IsValidUtf8(s)}

AddressSamples ==
    {H160_from_slice(Bytes(20, 170)),
     H160_from_slice(Bytes(20, 0)),
     H160_from_slice([i \in 1..20 |-> i])}

TailBytes == {0, 65, 127, 128, 169, 195, 255}

RECURSIVE SeqsUpTo(_, _)
SeqsUpTo(S, n) ==
    IF n = 0 THEN {<<>>}
    ELSE LET shorter == SeqsUpTo(S, n - 1)
         IN  shorter \cup {Append(q, x) : q \in shorter, x \in S}

\* A 12-byte name tail as received: some leading bytes, then zero padding.
TailSamples ==
    {[i \in 1..12 |-> IF i <= Len(q) THEN q[i] ELSE 0] :
        q \in SeqsUpTo(TailBytes, MaxTailVaried)}
    \cup {Cycle(b, 12) : b \in NameBases}

ReceivedSamples ==
    {concat_to_bytes32(H160_into(a), t) :
        a \in {H160_from_slice(Bytes(20, 170)), H160_from_slice(Bytes(20, 0))},
        t \in TailSamples}

\* The timestamp field (bits 0..57): 0, 1, 2^57, 1_700_000_000, 2^58 - 1.
TimestampSamples ==
    {FromNat(0), FromNat(1), {57}, FromNat(1700000000), 0..57}

HighBitSamples == {h \in SUBSET (58..63) : Cardinality(h) <= MaxHighBits}

ExpirationSamples ==
    {BitOr(lo, hi) : lo \in TimestampSamples, hi \in HighBitSamples}

\* counter (bits 0..19) | recv_time << 20 | trigger flag << 63
NonceSamples ==
    {BitOr(BitOr(c, Shl(t, 20)), f) :
        c \in {FromNat(0), FromNat(1), {19}, 0..19},
        t \in {FromNat(0), FromNat(1), {42}, FromNat(1700000123), 0..42},
        f \in {FromNat(0), {63}}}

Sender0 == concat_to_bytes32(Bytes(20, 170), Cycle(<<97, 99, 99, 116, 49>>, 5) \o Bytes(7, 0))

Sender1 == concat_to_bytes32([i \in 1..20 |-> i], Bytes(12, 0))

\* priceX18 and amount are i128 values that the code only copies; they are
\* drawn in units of 10^17 (1.5 and -2.0 are 15 and -20).
MkOrder(sender, price, amount, expiration, nonce) ==
    [sender |-> sender, priceX18 |-> price, amount |-> amount,
     expiration |-> expiration, nonce |-> nonce]

Nonce0 == BitOr(FromNat(7), Shl(FromNat(1700000123), 20))

OrderSamples ==
    {MkOrder(Sender0, 15, -20, e, Nonce0) : e \in ExpirationSamples}
    \cup {MkOrder(Sender0, 15, -20, FromNat(1700000000), n) : n \in NonceSamples}
    \cup {MkOrder(s, pa[1], pa[2], e, n) :
            s \in {Sender0, Sender1},
            pa \in {<<15, -20>>, <<-1, 0>>, <<0, 3>>},
            e \in {FromNat(0), U64Positions},
            n \in {FromNat(0), U64Positions}}

\* Order::default()
DefaultOrder == MkOrder(Bytes(32, 0), 0, 0, FromNat(0), FromNat(0))

MkCancellation(sender, nonce) ==
    [sender |-> sender, productIds |-> <<1, 2>>,
     digests |-> <<Bytes(32, 17)>>, nonce |-> nonce]

MkCancellationProducts(sender, nonce) ==
    [sender |-> sender, productIds |-> <<1, 2>>, nonce |-> nonce]

MkLinkSigner(sender, nonce) ==
    [sender |-> sender, signer |-> Sender1, nonce |-> nonce]

\* ------------------------------------------------------------------ state

\* An order and the other nonce-carrying messages of the same sender and
\* nonce, as constructed by the caller or deserialized from the wire.
InitOrder ==
    /\ pc = "order"
    /\ order \in OrderSamples
    /\ expArg = FromNat(0)
    /\ applied = <<>>
    /\ packed = None
    /\ view = None
    /\ cancellation = MkCancellation(order.sender, order.nonce)
    /\ cancellationProducts = MkCancellationProducts(order.sender, order.nonce)
    /\ linkSigner = MkLinkSigner(order.sender, order.nonce)
    /\ binding = None
    /\ restored = None
    /\ address = H160_from_slice(Bytes(20, 0))
    /\ name = <<>>
    /\ encoded = None
    /\ decoded = None

IdleOrderVars ==
    /\ order = DefaultOrder
    /\ expArg = FromNat(0)
    /\ applied = <<>>
    /\ packed = None
    /\ view = None
    /\ cancellation = MkCancellation(order.sender, order.nonce)
    /\ cancellationProducts = MkCancellationProducts(order.sender, order.nonce)
    /\ linkSigner = MkLinkSigner(order.sender, order.nonce)
    /\ binding = None
    /\ restored = None

\* An address and a name about to be encoded.
InitIdentity ==
    /\ pc = "identity"
    /\ IdleOrderVars
    /\ address \in AddressSamples
    /\ name \in NameSamples
    /\ encoded = None
    /\ decoded = None

\* A 32-byte identity received from the wire, about to be decoded.
InitReceived ==
    /\ pc = "received"
    /\ IdleOrderVars
    /\ address = H160_from_slice(Bytes(20, 0))
    /\ name = <<>>
    /\ encoded \in {Ok(b) : b \in ReceivedSamples}
    /\ decoded = None

Init == InitOrder \/ InitIdentity \/ InitReceived

\* ---------------------------------------------------------------- actions

\* The caller stamps an order type on the order's raw expiration and builds
\* the order with the result.
ApplyToExpiration(ot) ==
    /\ pc = "order"
    /\ Len(applied) < MaxStamps
    /\ expArg' = Order_raw_expiration(order)
    /\ packed' = Ok(apply_to_expiration(ot, Order_raw_expiration(order)))
    /\ order' = [order EXCEPT !.expiration = packed'.val]
    /\ applied' = Append(applied, ot)
    /\ UNCHANGED <<pc, view, cancellation, cancellationProducts, linkSigner,
                   binding, restored>>
    /\ UNCHANGED identityVars

\* The read accessors of the order and of the messages that share its nonce.
ReadAccessors ==
    /\ pc = "order"
    /\ view' = [kind |-> "ok",
                raw_nonce |-> Order_raw_nonce(order),
                raw_expiration |-> Order_raw_expiration(order),
                expiration |-> Order_expiration(order),
                reduce_only |-> Order_reduce_only(order),
                reserved_bits |-> Order_reserved_bits(order),
                recv_time |-> Order_recv_time(order),
                is_trigger_order |-> Order_is_trigger_order(order),
                cancellation_recv_time |-> Cancellation_recv_time(cancellation),
                cancellationProducts_recv_time |->
                    CancellationProducts_recv_time(cancellationProducts),
                linkSigner_recv_time |-> LinkSigner_recv_time(linkSigner)]
    /\ pc' = "inspected"
    /\ UNCHANGED <<order, expArg, applied, packed, cancellation,
                   cancellationProducts, linkSigner, binding, restored>>
    /\ UNCHANGED identityVars

ToBinding ==
    /\ pc = "inspected"
    /\ binding' = Order_to_binding(order)
    /\ pc' = "bound"
    /\ UNCHANGED <<order, expArg, applied, packed, view, cancellation,
                   cancellationProducts, linkSigner, restored>>
    /\ UNCHANGED identityVars

FromBinding ==
    /\ pc = "bound"
    /\ restored' = Order_from_binding(binding)
    /\ pc' = "restored"
    /\ UNCHANGED <<order, expArg, applied, packed, view, cancellation,
                   cancellationProducts, linkSigner, binding>>
    /\ UNCHANGED identityVars

ToBytes32 ==
    /\ pc = "identity"
    /\ encoded' = to_bytes32(address, name)
    /\ pc' = "encoded"
    /\ UNCHANGED <<address, name, decoded>>
    /\ UNCHANGED orderVars

\* Decoding what was encoded (a panic of the encoder left nothing to decode)
\* or what was received.
FromBytes32 ==
    /\ pc \in {"encoded", "received"}
    /\ encoded.kind = "ok"
    /\ decoded' = from_bytes32(encoded.val)
    /\ pc' = IF pc = "encoded" THEN "decoded" ELSE "rx_decoded"
    /\ UNCHANGED <<address, name, encoded>>
    /\ UNCHANGED orderVars

Next ==
    \/ \E ot \in OrderTypes : ApplyToExpiration(ot)
    \/ ReadAccessors
    \/ ToBinding
    \/ FromBinding
    \/ ToBytes32
    \/ FromBytes32

Spec == Init /\ [][Next]_vars

\* ----------------------------------------------------------------- claims

\* The value of bits lo..hi of x, as a number of its own (bit lo is bit 0).
Field(x, lo, hi) == {p - lo : p \in {q \in x : q >= lo /\ q <= hi}}

\* The two-bit tag of an order type: 0, 1, 2, 3.
TagOf(ot) ==
    CASE ot = "Default" -> {}
      [] ot = "ImmediateOrCancel" -> {0}
      [] ot = "FillOrKill" -> {1}
      [] ot = "PostOnly" -> {0, 1}

Rejected(r, e) == r.kind = "err" /\ r.error = e

IsAscii(s) == \A i \in 1..Len(s) : s[i] < 128

\* C1: an order whose expiration is ot.apply_to_expiration(e), e < 2^58,
\* has expiration() = e, bits 62-63 of raw_expiration() equal to ot's tag,
\* reduce_only() false and reserved_bits() zero.
C1_StampedExpirationDecodes ==
    (view.kind = "ok" /\ Len(applied) = 1 /\ expArg \cap (58..63) = {}) =>
        /\ view.expiration = expArg
        /\ Field(view.raw_expiration, 62, 63) = TagOf(applied[1])
        /\ view.reduce_only = FALSE
        /\ view.reserved_bits = {}

C1_Witness ==
    /\ view.kind = "ok"
    /\ applied = <<"PostOnly">>
    /\ expArg = FromNat(1700000000)
    /\ view.expiration = expArg

\* C2: packing the raw value 2^58 - 1 succeeds and round-trips, and packing
\* a raw value >= 2^58 is rejected with FieldOutOfRange.
C2_OutOfRangeRejected ==
    Len(applied) = 1 =>
        /\ (expArg = 0..57 =>
                packed.kind = "ok" /\ Field(packed.val, 0, 57) = expArg)
        /\ (expArg \cap (58..63) # {} => Rejected(packed, "FieldOutOfRange"))

\* C3: from_bytes32(to_bytes32(address, name)) = (address, name) for every
\* address and every ASCII name of 0 to 12 bytes.
C3_IdentityRoundTrip ==
    (pc = "decoded" /\ IsAscii(name) /\ Len(name) <= 12) =>
        /\ decoded.kind = "ok"
        /\ decoded.val.address = address
        /\ Len(decoded.val.name) = Len(name)
        /\ decoded.val.name = name

\* C4: encoding a name longer than 12 bytes ends in an error result, not a
\* truncation and not a panic; a name of exactly 12 bytes is accepted.
C4_LongNameRejected ==
    pc \in {"encoded", "decoded"} =>
        /\ (Len(name) > 12 => Rejected(encoded, "InvalidNameEncoding"))
        /\ (Len(name) = 12 => encoded.kind = "ok")

\* C5: recv_time() is nonce >> 20 and is_trigger_order() is bit 63 of the
\* nonce; neither depends on the low 20 bits; recv_time() agrees on Order,
\* Cancellation, CancellationProducts and LinkSigner.
C5_NonceAccessors ==
    view.kind = "ok" =>
        /\ view.recv_time = Field(order.nonce, 20, 63)
        /\ view.is_trigger_order = (63 \in order.nonce)
        /\ \A c \in {{}, {0}, {19}, {5, 7}, 0..19} :
              LET o == [order EXCEPT !.nonce = (@ \ (0..19)) \cup c]
              IN  /\ Order_recv_time(o) = view.recv_time
                  /\ Order_is_trigger_order(o) = view.is_trigger_order
        /\ view.cancellation_recv_time = view.recv_time
        /\ view.cancellationProducts_recv_time = view.recv_time
        /\ view.linkSigner_recv_time = view.recv_time

C5_Witness ==
    /\ view.kind = "ok"
    /\ 63 \in order.nonce
    /\ order.nonce \cap (0..19) # {}
    /\ view.recv_time = BitOr(FromNat(1700000123), {43})
    /\ view.is_trigger_order

\* C6: Order::from_binding(order.to_binding()) is field-wise equal to order,
\* and to_binding() copies all five fields unchanged.
C6_BindingRoundTrip ==
    pc = "restored" =>
        /\ restored = order
        /\ binding.sender = order.sender
        /\ binding.price_x18 = order.priceX18
        /\ binding.amount = order.amount
        /\ binding.expiration = order.expiration
        /\ binding.nonce = order.nonce

C6_Witness ==
    /\ pc = "restored"
    /\ restored.priceX18 # restored.amount
    /\ restored.expiration \cap (58..61) # {}
    /\ {62, 63} \subseteq restored.expiration
    /\ 63 \in restored.nonce

\* C7: expiration() is below 2^58, equals the low 58 bits of the packed
\* value and does not change when bits 58-63 change; those bits show in
\* reserved_bits(), reduce_only() and raw_expiration().
C7_ExpirationHidesHighBits ==
    view.kind = "ok" =>
        /\ view.expiration \subseteq 0..57
        /\ view.expiration = order.expiration \cap (0..57)
        /\ \A h \in SUBSET (58..63) :
              Order_expiration([order EXCEPT !.expiration = (@ \ (58..63)) \cup h])
                  = view.expiration
        /\ view.reserved_bits = Field(order.expiration, 58, 60)
        /\ view.reduce_only = (61 \in order.expiration)
        /\ view.raw_expiration = order.expiration

C7_Witness ==
    /\ view.kind = "ok"
    /\ {59, 61} \subseteq order.expiration
    /\ view.expiration = FromNat(1700000000)
    /\ view.reserved_bits = FromNat(2)
    /\ view.reduce_only

\* C8: decoding an identity whose name tail is not valid UTF-8 ends in an
\* InvalidNameEncoding error result and never panics; a tail of valid text
\* followed only by zero padding decodes.
C8_InvalidTailIsError ==
    pc = "rx_decoded" =>
        LET tail == SubSeq(encoded.val, 21, 32)
        IN  /\ (~IsValidUtf8(tail) => Rejected(decoded, "InvalidNameEncoding"))
            /\ (IsValidUtf8(tail) => decoded.kind = "ok")

\* C9 as claimed: recv_time() is the 43-bit field of bits 20-62, whatever
\* the trigger flag in bit 63.
C9_RecvTimeIgnoresTrigger ==
    view.kind = "ok" => view.recv_time = Field(order.nonce, 20, 62)

\* C9 as amended: for the nonce c | (t << 20) | (f << 63), recv_time() is t
\* when f = 0 and t + 2^43 when f = 1: the trigger flag shows as bit 43 of
\* recv_time(), and only the counter c is dropped.
C9_RecvTimeCarriesTrigger ==
    view.kind = "ok" =>
        LET t == Field(order.nonce, 20, 62)
        IN  /\ (63 \notin order.nonce => view.recv_time = t)
            /\ (63 \in order.nonce => view.recv_time = t \cup {43} /\ 43 \notin t)

C9_Witness ==
    /\ view.kind = "ok"
    /\ 63 \in order.nonce
    /\ Field(order.nonce, 20, 62) = FromNat(1700000123)
    /\ Field(order.nonce, 0, 19) = FromNat(1)
    /\ 43 \in view.recv_time

\* C10: ot.apply_to_expiration(x) leaves bits 0-61 of x unchanged, sets
\* bits only at positions 62-63 and clears none, and applying the same
\* order type a second time changes nothing.
C10_ApplyFrame ==
    Len(applied) >= 1 =>
        /\ packed.kind = "ok"
        /\ packed.val \cap (0..61) = expArg \cap (0..61)
        /\ expArg \subseteq packed.val
        /\ packed.val \ expArg \subseteq 62..63
        /\ order.expiration = packed.val
        /\ (Len(applied) >= 2 /\ applied[Len(applied)] = applied[Len(applied) - 1]
                => packed.val = expArg)

C10_Witness ==
    /\ applied = <<"FillOrKill", "FillOrKill">>
    /\ {58, 61} \subseteq expArg
    /\ packed.val = expArg
    /\ 62 \notin packed.val

====
